---- MODULE Spec2Model ----
(***************************************************************************)
(* A model of ophyd.v2.core: the connection orchestrator                   *)
(* (wait_for_connection), the AsyncStatus wrapper of an asyncio task and   *)
(* the subscription bridge (observe_value).                                *)
(*                                                                         *)
(* asyncio is modelled by what it does: a task is "pending" until its      *)
(* coroutine ends, after which it is "ok", has raised, or is "cancelled";  *)
(* Task.cancel() on a pending task records a cancellation request that the *)
(* coroutine may honour, convert into another exception, or swallow; a     *)
(* task's done-callbacks are run by the event loop in a later iteration,   *)
(* not at the moment the task becomes done.                                *)
(*                                                                         *)
(* Strings are sequences of one-character tokens, so that the f-strings of *)
(* the report are real concatenations.                                     *)
(***************************************************************************)
EXTENDS Integers, Sequences, FiniteSets, TLC

\* ---------------------------------------------------------------- bounds
\* The largest number of keyword arguments given to wait_for_connection.
MaxChildren == 3

\* The largest number of add_callback calls on one AsyncStatus.
MaxCallbacks == 3

\* The largest number of reads of AsyncStatus.success.
MaxReads == 2

\* The signal's values are 1..MaxValue.
MaxValue == 2

\* The largest number of value updates of the signal.
MaxUpdates == 4

\* The largest number of set_name calls made from outside the device tree.
MaxCalls == 3

\* The largest number of child signals of a StandardReadable that is staged.
MaxSig == 4

\* The largest number of child signals of a StandardReadable that is read.
MaxGathered == 3

\* The largest number of stage() and unstage() calls on one StandardReadable.
MaxStageCalls == 3

\* The largest number of devices a DeviceCollector connects.
MaxDevices == 3

\* The largest number of set() calls on one Mover.
MaxMoves == 2

\* The largest position of the motor; positions are 0..MaxPos.
MaxPos == 2

\* ------------------------------------------------------------- variables
VARIABLES
    \* wait_for_connection
    nChildren,      \* len(coros): the children are 1..nChildren in insertion order
    task,           \* ts[k]: the state of each child task
    cancelReq,      \* ts[k].cancel() was called while the task was pending
    childLines,     \* e.lines of the NotConnected a child raised
    pc,             \* where the orchestrator coroutine is
    orchCancel,     \* the orchestrator task has a CancelledError to be delivered
    idx,            \* position of the "for k, t in ts.items()" loop
    lines,          \* the local variable lines
    report,         \* the lines of the NotConnected that was raised
    \* AsyncStatus
    taskState,      \* self.task: "pending", "ok", "failed" or "cancelled"
    doneCbRan,      \* the loop has run the task's done-callback _run_callbacks
    callbacks,      \* self._callbacks, callbacks named by registration number
    nextCb,         \* the registration number of the next add_callback call
    calls,          \* the callbacks invoked so far, in invocation order
    addedDone,      \* the callbacks whose add_callback found the status done
    successLog,     \* each read of success: was the status done, and the outcome
    \* observe_value
    genPc,          \* where the async generator is
    subs,           \* the signal's value subscribers
    q,              \* the asyncio.Queue of the generator
    received,       \* the values the subscriber q.put_nowait was called with
    yielded,        \* the values the consumer got from the generator
    nUpdates,       \* how many value updates the signal has had
    \* wait_for_value
    wfvPc,          \* where the call of wait_for_value is
    wfvMatch,       \* the argument match
    wfvTimeout,     \* the argument timeout: "None", "nonpositive" or "positive"
    wfvCancel,      \* the caller of wait_for_value was cancelled
    pushed,         \* the values the signal took since the call
    \* Device names
    devName,        \* _name of every device
    devParent,      \* parent of every device, 0 for None
    nCalls,         \* how many set_name calls were made from outside
    lastCall,       \* the last such call: the device and the name given
    \* StandardReadable
    nSig,           \* how many child signals the composite was built with
    sigRole,        \* the constructor argument each child was passed in
    sigStageable,   \* whether each child has stage and unstage
    sigKey,         \* the key of each child's own single item mapping
    staged,         \* _staged
    lastStageCall,  \* "none", "stage" or "unstage": the most recent call
    nStage,         \* how many times stage() was called
    nUnstage,       \* how many times unstage() was called
    stageCalls,     \* how many times each child's stage() was invoked
    unstageCalls,   \* how many times each child's unstage() was invoked
    returned,       \* the list the most recent stage() or unstage() returned
    readPc,         \* "idle", "gathering" or "done"
    readOp,         \* the reading method in progress or last finished
    completed,      \* the gathered coroutines that finished, in that order
    reordered,      \* whether the last gather finished out of argument order
    readResult,     \* the mapping the last reading method returned
    \* DeviceCollector._wait_for_tasks
    nDevices,       \* how many devices were collected and are connecting
    devTask,        \* each connect task: "pending", "ok", "raised", "cancelled"
    devCancelReq,   \* whether each connect task was asked to cancel
    dcPending,      \* the tasks asyncio.wait returned as pending
    notConnected,   \* the tasks in not_connected
    dcAwaited,      \* the pending tasks the second loop has awaited
    dcPc,           \* "waiting", "awaiting", "returned", "raisedCancelledError"
    dcLog,          \* the summaries handed to logging.error
    \* Mover
    nMoves,         \* how many times set() was called
    moveTarget,     \* new_position of each move
    movePc,         \* "created", "gathering", "observing", "succeeded" or
                    \* "failed", for each move
    stoppedFalse,   \* whether stop(success=False) came while the move ran
    moverSuccess,   \* Mover._success
    setpoint,       \* the value of the setpoint signal
    moving,         \* whether the motor is travelling to the setpoint
    readback        \* the value of the readback signal

connVars == <<nChildren, task, cancelReq, childLines, pc, orchCancel, idx, lines, report>>

statusVars == <<taskState, doneCbRan, callbacks, nextCb, calls, addedDone, successLog>>

obsVars == <<genPc, subs, q, received, yielded, nUpdates>>

waitVars == <<wfvPc, wfvMatch, wfvTimeout, wfvCancel, pushed>>

nameVars == <<devName, devParent, nCalls, lastCall>>

builtVars == <<nSig, sigRole, sigStageable, sigKey>>

stageVars == <<staged, lastStageCall, nStage, nUnstage, stageCalls,
               unstageCalls, returned>>

readVars == <<readPc, readOp, completed, reordered, readResult>>

readableVars == <<builtVars, stageVars, readVars>>

collectorVars == <<nDevices, devTask, devCancelReq, dcPending, notConnected,
                   dcAwaited, dcPc, dcLog>>

moverVars == <<nMoves, moveTarget, movePc, stoppedFalse, moverSuccess,
               setpoint, moving, readback>>

vars == <<connVars, statusVars, obsVars, waitVars, nameVars, readableVars,
          collectorVars, moverVars>>

\* What the steps of one component leave alone.
nonConnVars == <<statusVars, obsVars, waitVars, nameVars,
    readableVars, collectorVars, moverVars>>

nonStatusVars == <<connVars, obsVars, waitVars, nameVars,
    readableVars, collectorVars, moverVars>>

nonObsVars == <<connVars, statusVars, waitVars, nameVars,
    readableVars, collectorVars, moverVars>>

nonWaitVars == <<connVars, statusVars, genPc, q, received, yielded, nameVars,
    readableVars, collectorVars, moverVars>>

nonNameVars == <<connVars, statusVars, obsVars, waitVars,
    readableVars, collectorVars, moverVars>>

nonReadableVars == <<connVars, statusVars, obsVars, waitVars, nameVars,
    collectorVars, moverVars>>

nonCollectorVars == <<connVars, statusVars, obsVars, waitVars, nameVars,
    readableVars, moverVars>>

nonMoverVars == <<connVars, statusVars, obsVars, waitVars, nameVars,
    readableVars, collectorVars>>

\* ------------------------------------------------------------ strings
Range(s) == {s[i] : i \in DOMAIN s}

\* The keyword names, in the insertion order of **coros.
Keys == <<"a", "b", "c", "d", "e">>

Key(i) == Keys[i]

Children == 1..nChildren

\* The message of a leaf's NotConnected (its source address).
LeafMsg == <<"p", "v">>

\* [f"  {line}" for line in e.lines]
Indented(ls) == [j \in DOMAIN ls |-> <<" ", " ">> \o ls[j]]

\* The lines one failing child adds to the report (lines 173-177).
ReportLines(k, elines) ==
    IF Len(elines) = 1
    THEN << <<k, ":", " ">> \o elines[1] >>
    ELSE << <<k, ":">> >> \o Indented(elines)

\* lines.append(...) and lines += [...]
AddLinesInFront(ls, new) == new \o ls

AddLines(ls, new) == ls \o new

\* The keyword names of the leaves of a composite child.
SubKeys == <<"x", "y">>

RECURSIVE SubReport(_, _)
\* The lines of the report a composite child's own cancelled
\* wait_for_connection raises when its leaves in failed raised NotConnected
\* and its other leaves connected, from leaf j on.
SubReport(failed, j) ==
    IF j > Len(SubKeys)
    THEN << >>
    ELSE AddLines(IF SubKeys[j] \in failed
                  THEN ReportLines(SubKeys[j], <<LeafMsg>>)
                  ELSE << >>,
                  SubReport(failed, j + 1))

\* What e.lines of a child's NotConnected can be: one line from a leaf; the
\* lines of a composite child's own report, which may be several, one or none.
ChildReports ==
    {<<LeafMsg>>} \cup {SubReport(failed, 1) : failed \in SUBSET Range(SubKeys)}

\* ----------------------------------------------------- wait_for_connection
InitConn ==
    /\ nChildren \in 0..MaxChildren
    /\ task = [i \in 1..nChildren |-> "pending"]
    /\ cancelReq = [i \in 1..nChildren |-> FALSE]
    /\ childLines = [i \in 1..nChildren |-> << >>]
    /\ pc = "init"
    /\ orchCancel = FALSE
    /\ idx = 0
    /\ lines = << >>
    /\ report = << >>

\* Lines 162-164 up to the suspension: the tasks are created and asyncio.wait
\* is entered; asyncio.wait raises ValueError on an empty set of tasks, which
\* no handler of wait_for_connection catches.
Start ==
    /\ pc = "init"
    /\ pc' = IF nChildren = 0 THEN "raisedValueError" ELSE "waiting"
    /\ UNCHANGED <<nChildren, task, cancelReq, childLines, orchCancel, idx, lines, report>>
    /\ UNCHANGED nonConnVars

Running == pc \in {"waiting", "handling"}

\* A child's connect() returns.
ChildSucceeds(i) ==
    /\ Running
    /\ task[i] = "pending"
    /\ task' = [task EXCEPT ![i] = "ok"]
    /\ UNCHANGED <<nChildren, cancelReq, childLines, pc, orchCancel, idx, lines, report>>
    /\ UNCHANGED nonConnVars

\* A child's connect() raises NotConnected(*ls): a connection failure.
ChildNotConnected(i, ls) ==
    /\ Running
    /\ task[i] = "pending"
    /\ task' = [task EXCEPT ![i] = "nc"]
    /\ childLines' = [childLines EXCEPT ![i] = ls]
    /\ UNCHANGED <<nChildren, cancelReq, pc, orchCancel, idx, lines, report>>
    /\ UNCHANGED nonConnVars

\* A child's connect() raises an exception that is not NotConnected.
ChildRaisesOther(i) ==
    /\ Running
    /\ task[i] = "pending"
    /\ task' = [task EXCEPT ![i] = "err"]
    /\ UNCHANGED <<nChildren, cancelReq, childLines, pc, orchCancel, idx, lines, report>>
    /\ UNCHANGED nonConnVars

\* A child whose task was asked to cancel ends cancelled: its coroutine did
\* not catch the CancelledError thrown into it.
ChildCancelled(i) ==
    /\ Running
    /\ task[i] = "pending"
    /\ cancelReq[i]
    /\ task' = [task EXCEPT ![i] = "cancelled"]
    /\ UNCHANGED <<nChildren, cancelReq, childLines, pc, orchCancel, idx, lines, report>>
    /\ UNCHANGED nonConnVars

AllDone == \A i \in Children : task[i] # "pending"

\* Line 164 completes: asyncio.wait returns (done, pending) whatever the
\* children's outcomes, and wait_for_connection returns None.
WaitReturns ==
    /\ pc = "waiting"
    /\ ~orchCancel
    /\ AllDone
    /\ pc' = "returned"
    /\ UNCHANGED <<nChildren, task, cancelReq, childLines, orchCancel, idx, lines, report>>
    /\ UNCHANGED nonConnVars

\* The orchestrator's task is cancelled from outside while it is suspended in
\* asyncio.wait; the CancelledError is delivered when the loop resumes it.
CancelOrchestrator ==
    /\ pc = "waiting"
    /\ ~orchCancel
    /\ orchCancel' = TRUE
    /\ UNCHANGED <<nChildren, task, cancelReq, childLines, pc, idx, lines, report>>
    /\ UNCHANGED nonConnVars

\* "for t in ts.values(): t.cancel()": cancel() acts on pending tasks only.
CancelAllFirstOnly(ts, req) ==
    [i \in DOMAIN ts |-> req[i] \/ (i = 1 /\ ts[i] = "pending")]

CancelAll(ts, req) ==
    [i \in DOMAIN ts |-> req[i] \/ ts[i] = "pending"]

\* Lines 165-168: the CancelledError arrives, every task is cancelled and the
\* report is started.
HandleCancel ==
    /\ pc = "waiting"
    /\ orchCancel
    /\ orchCancel' = FALSE
    /\ cancelReq' = CancelAll(task, cancelReq)
    /\ lines' = << >>
    /\ idx' = 1
    /\ pc' = "handling"
    /\ UNCHANGED <<nChildren, task, childLines, report>>
    /\ UNCHANGED nonConnVars

\* Lines 169-177, one iteration: "await t" ends when t is done; a NotConnected
\* is caught and formatted, any other exception of t (CancelledError included)
\* leaves the function.
AwaitChild ==
    /\ pc = "handling"
    /\ idx <= nChildren
    /\ task[idx] # "pending"
    /\ CASE task[idx] = "ok" ->
              /\ idx' = idx + 1
              /\ UNCHANGED <<pc, lines>>
         [] task[idx] = "nc" ->
              /\ lines' = AddLines(lines, ReportLines(Key(idx), childLines[idx]))
              /\ idx' = idx + 1
              /\ UNCHANGED pc
         [] task[idx] = "cancelled" ->
              /\ pc' = "raisedCancelledError"
              /\ UNCHANGED <<idx, lines>>
         [] task[idx] = "err" ->
              /\ pc' = "raisedOther"
              /\ UNCHANGED <<idx, lines>>
    /\ UNCHANGED <<nChildren, task, cancelReq, childLines, orchCancel, report>>
    /\ UNCHANGED nonConnVars

\* Line 178: raise NotConnected(*lines).
RaiseReport ==
    /\ pc = "handling"
    /\ idx = nChildren + 1
    /\ report' = lines
    /\ pc' = "raisedNotConnected"
    /\ UNCHANGED <<nChildren, task, cancelReq, childLines, orchCancel, idx, lines>>
    /\ UNCHANGED nonConnVars

NextConn ==
    \/ Start
    \/ \E i \in Children : ChildSucceeds(i)
    \/ \E i \in Children : \E ls \in ChildReports : ChildNotConnected(i, ls)
    \/ \E i \in Children : ChildRaisesOther(i)
    \/ \E i \in Children : ChildCancelled(i)
    \/ WaitReturns
    \/ CancelOrchestrator
    \/ HandleCancel
    \/ AwaitChild
    \/ RaiseReport



\* ------------------------------------------- claims: wait_for_connection
Terminated ==
    pc \in {"returned", "raisedNotConnected", "raisedCancelledError",
            "raisedOther", "raisedValueError"}

\* The children whose connect raised a connection failure, by keyword name.
FailingKeys == {Key(i) : i \in {j \in Children : task[j] = "nc"}}

\* The names a report gives at its top level: the first token of every line
\* that is not indented.
Named(rep) == {l[1] : l \in {m \in Range(rep) : m[1] # " "}}

\* C1 (as claimed): once wait_for_connection has ended with every child done
\* and at least one child having failed to connect, it has raised a
\* NotConnected whose top-level names are exactly the failing children,
\* whether or not the orchestrator was cancelled.
C1_RaisesReportOfFailing ==
    (Terminated /\ AllDone /\ FailingKeys # {}) =>
        (pc = "raisedNotConnected" /\ Named(report) = FailingKeys)

\* C2 (as claimed): wait_for_connection with zero children, once started,
\* has completed successfully and raised nothing.
C2_ZeroChildrenSucceed ==
    (nChildren = 0 /\ pc # "init") => pc = "returned"

\* C3: the step in which the cancelled orchestrator runs its handler leaves
\* every child task that is pending at that moment with a cancellation
\* request; a child that has succeeded stays succeeded in every step, and a
\* report that is raised never names it.
C3_CancelReachesPendingChildren ==
    /\ [][(pc = "waiting" /\ pc' = "handling") =>
            \A i \in Children : task[i] = "pending" => cancelReq'[i]]_vars
    /\ [][\A i \in Children : task[i] = "ok" => task'[i] = "ok"]_vars
    /\ [](pc = "raisedNotConnected" =>
            \A i \in Children : task[i] = "ok" => Key(i) \notin Named(report))

\* C3's case: a cancelled orchestrator has reported; one child had succeeded
\* before the cancellation and another was cancelled while pending.
C3_Witness ==
    /\ pc = "raisedNotConnected"
    /\ \E i, j \in Children :
          /\ task[i] = "ok" /\ ~cancelReq[i]
          /\ task[j] = "nc" /\ cancelReq[j]

\* C4 (as claimed): a wait_for_connection that was cancelled ends by raising
\* NotConnected, never a CancelledError or another exception of a child, and
\* its report names no child that succeeded or ended cancelled.
C4_CancelRaisesNotConnected ==
    pc \in {"raisedNotConnected", "raisedCancelledError", "raisedOther"} =>
        /\ pc = "raisedNotConnected"
        /\ \A i \in Children :
              task[i] \in {"ok", "cancelled"} => Key(i) \notin Named(report)

\* The lines wait_for_connection gives child i.
OwnLines(i) == ReportLines(Key(i), childLines[i])

RECURSIVE OwnInOrder(_)
\* The lines of the failing children from child i on, in insertion order.
OwnInOrder(i) ==
    IF i > nChildren
    THEN << >>
    ELSE (IF task[i] = "nc" THEN OwnLines(i) ELSE << >>) \o OwnInOrder(i + 1)

\* C22: a report that a cancelled wait_for_connection raised has the lines of
\* its failing children in the insertion order of the children, whether a
\* child failed before the cancellation or after it.
C22_ReportInInsertionOrder ==
    pc = "raisedNotConnected" => report = OwnInOrder(1)

\* C22 witness: a report was raised in which a later child failed before the
\* cancellation and an earlier child failed only after it.
C22_Witness ==
    /\ pc = "raisedNotConnected"
    /\ \E i, j \in Children :
          /\ i < j
          /\ task[i] = "nc" /\ cancelReq[i]
          /\ task[j] = "nc" /\ ~cancelReq[j]

\* The lines C23 claims for failing child i: a leaf gives one line; a
\* composite gives a heading and below it its own lines one level deeper,
\* and nothing at all when none of its leaves failed.
ClaimedLines(i) ==
    IF childLines[i] = <<LeafMsg>>
    THEN << <<Key(i), ":", " ">> \o LeafMsg >>
    ELSE IF childLines[i] = << >>
         THEN << >>
         ELSE << <<Key(i), ":">> >> \o Indented(childLines[i])

RECURSIVE ClaimedInOrder(_)
\* The claimed lines of the failing children from child i on.
ClaimedInOrder(i) ==
    IF i > nChildren
    THEN << >>
    ELSE (IF task[i] = "nc" THEN ClaimedLines(i) ELSE << >>)
            \o ClaimedInOrder(i + 1)

\* C23 (as claimed): the report of the root has, for every failing leaf, one
\* line under one heading line per composite ancestor, each indented by its
\* depth, and no line for a composite none of whose leaves failed.
C23_NestedReportByDepth ==
    pc = "raisedNotConnected" => report = ClaimedInOrder(1)

\* C24 (as claimed): wait_for_connection has not returned or raised while a
\* child's connect task is still pending.
C24_EndsOnlyWhenAllDone ==
    Terminated => AllDone

\* ------------------------------------------------------------ AsyncStatus
\* AsyncStatus.__init__: the task is created and _run_callbacks is registered
\* as its done-callback; no callback is stored.
InitStatus ==
    /\ taskState = "pending"
    /\ doneCbRan = FALSE
    /\ callbacks = << >>
    /\ nextCb = 1
    /\ calls = << >>
    /\ addedDone = {}
    /\ successLog = << >>

\* AsyncStatus.done
Done == taskState # "pending"

SuccessNoAssert ==
    IF taskState = "ok" THEN "True" ELSE "False"

SuccessExceptionOnly ==
    CASE taskState = "pending" -> "AssertionError"
      [] taskState = "ok" -> "True"
      [] taskState = "failed" -> "False"
      [] taskState = "cancelled" -> "CancelledError"

\* AsyncStatus.success: what reading the property gives, an exception's name
\* when it raises.
Success ==
    CASE taskState = "pending" -> "AssertionError"
      [] taskState = "ok" -> "True"
      [] taskState \in {"failed", "cancelled"} -> "False"

\* The wrapped coroutine returns.
TaskSucceeds ==
    /\ taskState = "pending"
    /\ taskState' = "ok"
    /\ UNCHANGED <<doneCbRan, callbacks, nextCb, calls, addedDone, successLog>>
    /\ UNCHANGED nonStatusVars

\* The wrapped coroutine raises.
TaskFails ==
    /\ taskState = "pending"
    /\ taskState' = "failed"
    /\ UNCHANGED <<doneCbRan, callbacks, nextCb, calls, addedDone, successLog>>
    /\ UNCHANGED nonStatusVars

\* The wrapped task is cancelled and ends cancelled.
TaskCancelled ==
    /\ taskState = "pending"
    /\ taskState' = "cancelled"
    /\ UNCHANGED <<doneCbRan, callbacks, nextCb, calls, addedDone, successLog>>
    /\ UNCHANGED nonStatusVars

AddCallbackAlwaysStores ==
    /\ nextCb <= MaxCallbacks
    /\ nextCb' = nextCb + 1
    /\ callbacks' = Append(callbacks, nextCb)
    /\ IF Done
       THEN /\ calls' = Append(calls, nextCb)
            /\ addedDone' = addedDone \cup {nextCb}
       ELSE UNCHANGED <<calls, addedDone>>
    /\ UNCHANGED <<taskState, doneCbRan, successLog>>
    /\ UNCHANGED nonStatusVars

\* AsyncStatus.add_callback, called with a callback not registered before.
AddCallback ==
    /\ nextCb <= MaxCallbacks
    /\ nextCb' = nextCb + 1
    /\ IF Done
       THEN /\ calls' = Append(calls, nextCb)
            /\ addedDone' = addedDone \cup {nextCb}
            /\ UNCHANGED callbacks
       ELSE /\ callbacks' = Append(callbacks, nextCb)
            /\ UNCHANGED <<calls, addedDone>>
    /\ UNCHANGED <<taskState, doneCbRan, successLog>>
    /\ UNCHANGED nonStatusVars

\* AsyncStatus._run_callbacks, run once by the event loop after the task is
\* done.
RunCallbacks ==
    /\ Done
    /\ ~doneCbRan
    /\ doneCbRan' = TRUE
    /\ calls' = IF taskState # "cancelled" THEN calls \o callbacks ELSE calls
    /\ UNCHANGED <<taskState, callbacks, nextCb, addedDone, successLog>>
    /\ UNCHANGED nonStatusVars

\* A read of AsyncStatus.success.
ReadSuccess ==
    /\ Len(successLog) < MaxReads
    /\ successLog' = Append(successLog, [done |-> Done, result |-> Success])
    /\ UNCHANGED <<taskState, doneCbRan, callbacks, nextCb, calls, addedDone>>
    /\ UNCHANGED nonStatusVars

NextStatus ==
    \/ TaskSucceeds
    \/ TaskFails
    \/ TaskCancelled
    \/ AddCallback
    \/ RunCallbacks
    \/ ReadSuccess

\* ---------------------------------------------------- claims: AsyncStatus
Count(s, x) == Cardinality({i \in DOMAIN s : s[i] = x})

\* C5 (as claimed): no callback is invoked while the task is pending, and once
\* the done-callback has run, every callback that was registered while the
\* status was pending has been invoked exactly once, whichever terminal state
\* the task reached.
C5_PendingCallbacksFireOnce ==
    /\ taskState = "pending" => calls = << >>
    /\ doneCbRan => \A cb \in Range(callbacks) : Count(calls, cb) = 1

\* C6 (as claimed): callbacks are invoked in the order of their add_callback
\* calls: the invocation log is increasing in registration number.
C6_RegistrationOrder ==
    \A i, j \in DOMAIN calls : i < j => calls[i] < calls[j]

\* C7: a callback whose add_callback found the status done is not in the
\* callback list and has been invoked exactly once, in every state from the
\* add_callback step on, also after the done-callback has run.
C7_DoneAddFiresOnceNow ==
    \A cb \in addedDone : cb \notin Range(callbacks) /\ Count(calls, cb) = 1

\* C7's case: a callback was added to a done status before the loop ran the
\* done-callback, and the done-callback has since invoked a stored callback.
C7_Witness ==
    /\ doneCbRan
    /\ \E i, j \in DOMAIN calls :
          i < j /\ calls[i] \in addedDone /\ calls[j] \in Range(callbacks)

\* C8: every read of success made while the task was not done raised the
\* assertion's error, and such a read changes neither the task nor the
\* callback list nor what has been invoked.
C8_SuccessBeforeDoneRaises ==
    /\ [](\A k \in DOMAIN successLog :
            ~successLog[k].done => successLog[k].result = "AssertionError")
    /\ [][(successLog' # successLog /\ ~Done) =>
            UNCHANGED <<taskState, doneCbRan, callbacks, calls>>]_vars

\* C8's case: success was read while the task was pending and callbacks were
\* registered.
C8_Witness ==
    /\ callbacks # << >>
    /\ \E k \in DOMAIN successLog : ~successLog[k].done

\* C9: every read of success made once the status was done gave True when
\* the task finished without raising and without being cancelled and False
\* otherwise, never an exception; so all such reads agree.
C9_SuccessIffTaskOk ==
    \A k \in DOMAIN successLog :
        successLog[k].done =>
            successLog[k].result = (IF taskState = "ok" THEN "True" ELSE "False")

\* C9's case: success was read twice on a status whose task was cancelled.
C9_Witness ==
    /\ taskState = "cancelled"
    /\ Len(successLog) = 2
    /\ \A k \in DOMAIN successLog : successLog[k].done

\* ----------------------------------------------------------- observe_value
Values == 1..MaxValue

\* The subscriber observe_value registers: the bound method q.put_nowait.
PutNowait == "q.put_nowait"

\* The call observe_value(signal) returns an async generator that has not
\* run yet; the signal has no subscriber.
InitObserve ==
    /\ genPc = "created"
    /\ subs = {}
    /\ q = << >>
    /\ received = << >>
    /\ yielded = << >>
    /\ nUpdates = 0

QueuePutLatestOnly(queue, v) == <<v>>

\* q.put_nowait(v) on the unbounded asyncio.Queue() of line 404.
QueuePut(queue, v) == Append(queue, v)

\* The item "await q.get()" returns, and the queue it leaves.
QueueGetItem(queue) == Head(queue)

QueueGetRest(queue) == Tail(queue)

\* The signal's value changes to v: every subscriber is called with it.
SignalUpdate(v) ==
    /\ nUpdates < MaxUpdates
    /\ nUpdates' = nUpdates + 1
    /\ IF PutNowait \in subs
       THEN /\ q' = QueuePut(q, v)
            /\ received' = Append(received, v)
       ELSE UNCHANGED <<q, received>>
    /\ UNCHANGED <<genPc, subs, yielded>>
    /\ UNCHANGED nonObsVars

\* The consumer asks for the next value (__anext__). The first time the
\* generator starts: lines 404-405 subscribe. Then "await q.get()": an item
\* that is there is yielded at once, otherwise the generator suspends.
Pull ==
    /\ genPc \in {"created", "yielded"}
    /\ subs' = IF genPc = "created" THEN subs \cup {PutNowait} ELSE subs
    /\ IF q # << >>
       THEN /\ yielded' = Append(yielded, QueueGetItem(q))
            /\ q' = QueueGetRest(q)
            /\ genPc' = "yielded"
       ELSE /\ genPc' = "getting"
            /\ UNCHANGED <<q, yielded>>
    /\ UNCHANGED <<received, nUpdates>>
    /\ UNCHANGED nonObsVars

\* The suspended "await q.get()" is resumed by the loop after a put, and the
\* item is yielded.
ResumeGet ==
    /\ genPc = "getting"
    /\ q # << >>
    /\ yielded' = Append(yielded, QueueGetItem(q))
    /\ q' = QueueGetRest(q)
    /\ genPc' = "yielded"
    /\ UNCHANGED <<subs, received, nUpdates>>
    /\ UNCHANGED nonObsVars

\* The consumer leaves its "async for" (break, return or an exception of the
\* loop body) while the generator is suspended at the yield: no code of the
\* generator runs.
Abandon ==
    /\ genPc = "yielded"
    /\ genPc' = "abandoned"
    /\ UNCHANGED <<subs, q, received, yielded, nUpdates>>
    /\ UNCHANGED nonObsVars

\* The abandoned generator is finalized (aclose() by the loop's asyncgen
\* hook once the object is collected): GeneratorExit at the yield runs the
\* finally clause, line 410.
Finalize ==
    /\ genPc = "abandoned"
    /\ subs' = subs \ {PutNowait}
    /\ genPc' = "closed"
    /\ UNCHANGED <<q, received, yielded, nUpdates>>
    /\ UNCHANGED nonObsVars

\* The consumer is cancelled while suspended in "await q.get()": the
\* CancelledError passes through the finally clause, line 410.
CancelGet ==
    /\ genPc = "getting"
    /\ subs' = subs \ {PutNowait}
    /\ genPc' = "closed"
    /\ UNCHANGED <<q, received, yielded, nUpdates>>
    /\ UNCHANGED nonObsVars

NextObserve ==
    \/ \E v \in Values : SignalUpdate(v)
    \/ Pull
    \/ ResumeGet
    \/ Abandon
    \/ Finalize
    \/ CancelGet

\* -------------------------------------------------- claims: observe_value
\* C10: the values yielded to the consumer, followed by the values still in
\* the queue, are exactly the values the subscriber received, in the order
\* received: nothing is dropped, duplicated, reordered or coalesced.
C10_YieldsWhatWasReceived ==
    received = yielded \o q

\* C10's case: the consumer got two equal values in a row, and at least two
\* more updates have arrived since its last pull.
C10_Witness ==
    /\ Len(yielded) >= 2
    /\ yielded[1] = yielded[2]
    /\ Len(q) >= 2

\* C11 (as claimed): once the consumer has stopped consuming, by leaving its
\* loop, by being cancelled or by raising, the subscriber of observe_value is
\* no longer among the signal's subscribers.
C11_UnsubscribedOnceStopped ==
    genPc \in {"abandoned", "closed"} => PutNowait \notin subs

\* ---------------------------------------------------------- wait_for_value
\* The argument match: a callable, given by the set of values it accepts, or
\* a value to compare with.
Matchers ==
    [callable : {TRUE}, accepts : SUBSET Values] \cup
    [callable : {FALSE}, value : Values]

Timeouts == {"None", "nonpositive", "positive"}

\* What lines 439-446 test a value with: match(value), or value == match.
Matches(m, v) == IF m.callable THEN v \in m.accepts ELSE v = m.value

\* wait_for_value(signal, match, timeout) is called; the signal has no
\* subscriber.
InitWait ==
    /\ wfvPc = "init"
    /\ wfvMatch \in Matchers
    /\ wfvTimeout \in Timeouts
    /\ wfvCancel = FALSE
    /\ pushed = << >>

\* The first step of the coroutine _wait_for_value, line 439. The "def match"
\* of line 441 makes match a local name of _wait_for_value, so callable(match)
\* reads a local that is not bound yet, for a callable match as for any
\* other: UnboundLocalError, before observe_value is called.
InnerFirstStep == "UnboundLocalError"

\* Lines 448-449: asyncio.wait_for is entered. With no timeout, and in
\* interpreters whose wait_for awaits the coroutine in the caller's task, the
\* coroutine runs at once. Otherwise wait_for makes a task of it: with a
\* timeout <= 0 that task is cancelled before it starts and TimeoutError is
\* raised, with a positive timeout the caller suspends.
WaitCall ==
    /\ wfvPc = "init"
    /\ \/ wfvPc' = "raised" \o InnerFirstStep
       \/ /\ wfvTimeout = "nonpositive"
          /\ wfvPc' = "raisedTimeoutError"
       \/ /\ wfvTimeout = "positive"
          /\ wfvPc' = "waiting"
    /\ UNCHANGED <<wfvMatch, wfvTimeout, wfvCancel, pushed, subs, nUpdates>>
    /\ UNCHANGED nonWaitVars

\* The task of _wait_for_value runs its first step, which is its last.
InnerStart ==
    /\ wfvPc = "waiting"
    /\ wfvPc' = "inner" \o InnerFirstStep
    /\ UNCHANGED <<wfvMatch, wfvTimeout, wfvCancel, pushed, subs, nUpdates>>
    /\ UNCHANGED nonWaitVars

\* wait_for is resumed with its task done and re-raises the task's
\* exception, also when a cancellation of the caller is pending.
WaitResume ==
    /\ wfvPc = "inner" \o InnerFirstStep
    /\ wfvPc' = "raised" \o InnerFirstStep
    /\ UNCHANGED <<wfvMatch, wfvTimeout, wfvCancel, pushed, subs, nUpdates>>
    /\ UNCHANGED nonWaitVars

\* The caller is cancelled while suspended in wait_for.
CancelWait ==
    /\ wfvPc \in {"waiting", "inner" \o InnerFirstStep}
    /\ ~wfvCancel
    /\ wfvCancel' = TRUE
    /\ UNCHANGED <<wfvPc, wfvMatch, wfvTimeout, pushed, subs, nUpdates>>
    /\ UNCHANGED nonWaitVars

\* The CancelledError reaches wait_for while its task has not run: the task
\* is cancelled before its first step and the CancelledError is re-raised.
WaitCancelled ==
    /\ wfvPc = "waiting"
    /\ wfvCancel
    /\ wfvPc' = "raisedCancelledError"
    /\ UNCHANGED <<wfvMatch, wfvTimeout, wfvCancel, pushed, subs, nUpdates>>
    /\ UNCHANGED nonWaitVars

\* The signal's value changes to v: every subscriber is called with it.
WaitSignalUpdate(v) ==
    /\ nUpdates < MaxUpdates
    /\ nUpdates' = nUpdates + 1
    /\ pushed' = Append(pushed, v)
    /\ IF PutNowait \in subs
       THEN /\ q' = QueuePut(q, v)
            /\ received' = Append(received, v)
       ELSE UNCHANGED <<q, received>>
    /\ UNCHANGED <<wfvPc, wfvMatch, wfvTimeout, wfvCancel, subs>>
    /\ UNCHANGED <<connVars, statusVars, genPc, yielded, nameVars, readableVars,
                   collectorVars, moverVars>>

NextWait ==
    \/ WaitCall
    \/ InnerStart
    \/ WaitResume
    \/ CancelWait
    \/ WaitCancelled
    \/ \E v \in Values : WaitSignalUpdate(v)

\* ------------------------------------------------- claims: wait_for_value
WaitEnded ==
    wfvPc \in {"returned", "raisedTimeoutError", "raisedCancelledError",
               "raisedUnboundLocalError"}

\* C12 (as claimed): wait_for_value completes successfully at the first value
\* for which the predicate (or the equality with match) holds: called with no
\* timeout and never cancelled, it ends only by returning, and only after the
\* signal took a matching value.
C12_CompletesAtFirstMatch ==
    (WaitEnded /\ wfvTimeout = "None" /\ ~wfvCancel) =>
        /\ wfvPc = "returned"
        /\ \E k \in DOMAIN pushed : Matches(wfvMatch, pushed[k])

\* C13 (as claimed): a wait_for_value with a positive timeout that ends
\* without the signal having taken a matching value and without being
\* cancelled has raised the timeout failure, and its subscriber is not
\* subscribed then.
C13_TimeoutRaisedAndUnsubscribed ==
    (/\ WaitEnded
     /\ wfvTimeout = "positive"
     /\ ~wfvCancel
     /\ \A k \in DOMAIN pushed : ~Matches(wfvMatch, pushed[k])) =>
        (wfvPc = "raisedTimeoutError" /\ PutNowait \notin subs)

\* C14 (as claimed): wait_for_value ends by returning after a match, by the
\* timeout failure or by the cancellation, and on each of these outcomes its
\* subscriber is not among the signal's subscribers.
C14_ReleasedOnEveryOutcome ==
    WaitEnded =>
        /\ wfvPc \in {"returned", "raisedTimeoutError", "raisedCancelledError"}
        /\ PutNowait \notin subs

\* ---------------------------------------------------------- Device names
\* A device tree as the demo devices build it: device 1 is a StandardReadable
\* that holds a StandardReadable (2) as attribute x and a Signal (3) as
\* attribute s_; device 2 holds a Signal (4) as attribute t.
Devices == 1..4

DeviceKind == <<"StandardReadable", "StandardReadable", "Signal", "Signal">>

\* The Device attributes in each device's __dict__, in insertion order.
DeviceAttrs ==
    << << [attr |-> <<"x">>, dev |-> 2], [attr |-> <<"s", "_">>, dev |-> 3] >>,
       << [attr |-> <<"t">>, dev |-> 4] >>,
       << >>,
       << >> >>

\* The names given from outside: "", "r" and "z".
GivenNames == {<< >>, <<"r">>, <<"z">>}

RECURSIVE RStrip(_)
\* attr_name.rstrip('_')
RStrip(str) ==
    IF str # << >> /\ str[Len(str)] = "_"
    THEN RStrip(SubSeq(str, 1, Len(str) - 1))
    ELSE str

\* f"{name}-{attr_name.rstrip('_')}"
ChildName(n, attr) == n \o <<"-">> \o RStrip(attr)

\* Signal.set_name: the name a Signal has after set_name(n).
SignalSetName(old, n) == n

\* The test of StandardReadable.set_name: "if name and not self._name".
CompositeRenames(old, n) == n # << >> /\ old = << >>

RECURSIVE SetName(_, _, _)
RECURSIVE NameAttrs(_, _, _, _)
\* d.set_name(n) on the tree st = [name, parent].
SetName(st, d, n) ==
    IF DeviceKind[d] = "Signal"
    THEN [st EXCEPT !.name[d] = SignalSetName(st.name[d], n)]
    ELSE IF CompositeRenames(st.name[d], n)
         THEN NameAttrs([st EXCEPT !.name[d] = n], d, n, 1)
         ELSE st

\* The loop of StandardReadable.set_name over self.__dict__, from item i on.
NameAttrs(st, d, n, i) ==
    IF i > Len(DeviceAttrs[d])
    THEN st
    ELSE LET a == DeviceAttrs[d][i]
             named == SetName(st, a.dev, ChildName(n, a.attr))
         IN  NameAttrs([named EXCEPT !.parent[a.dev] = d], d, n, i + 1)

\* The devices as constructed: no name was given, no parent is set.
InitNames ==
    /\ devName = [d \in Devices |-> << >>]
    /\ devParent = [d \in Devices |-> 0]
    /\ nCalls = 0
    /\ lastCall = [dev |-> 0, name |-> << >>]

\* d.set_name(n) called from outside (by the constructor's caller, by a
\* DeviceCollector or by hand).
SetNameCall(d, n) ==
    /\ nCalls < MaxCalls
    /\ nCalls' = nCalls + 1
    /\ lastCall' = [dev |-> d, name |-> n]
    /\ LET after == SetName([name |-> devName, parent |-> devParent], d, n)
       IN  /\ devName' = after.name
           /\ devParent' = after.parent
    /\ UNCHANGED nonNameVars

NextNames ==
    \E d \in Devices : \E n \in GivenNames : SetNameCall(d, n)

\* --------------------------------------------------- claims: Device names
\* C15 (as claimed): in every step, a device whose name is non-empty keeps
\* its name, whatever set_name call the step is; and set_name("") on an
\* unnamed device leaves it unnamed.
C15_NamedOnce ==
    [][/\ \A d \in Devices : devName[d] # << >> => devName'[d] = devName[d]
       /\ \A d \in Devices :
            (nCalls' # nCalls /\ lastCall'.dev = d /\ lastCall'.name = << >>
                /\ devName[d] = << >>) => devName'[d] = << >>]_vars

\* C16 (as claimed): a step set_name(n), n non-empty, on an unnamed composite
\* leaves every Device attribute a of the composite with the composite as its
\* parent, named n-a (trailing underscores of a stripped) if it was unnamed,
\* and with the name it had if it was named.
C16_ChildrenNamedAndParented ==
    [][\A d \in Devices :
        (/\ nCalls' # nCalls
         /\ lastCall'.dev = d
         /\ lastCall'.name # << >>
         /\ DeviceKind[d] = "StandardReadable"
         /\ devName[d] = << >>) =>
            \A i \in DOMAIN DeviceAttrs[d] :
                LET a == DeviceAttrs[d][i]
                IN  /\ devParent'[a.dev] = d
                    /\ devName[a.dev] = << >> =>
                          devName'[a.dev] = ChildName(lastCall'.name, a.attr)
                    /\ devName[a.dev] # << >> =>
                          devName'[a.dev] = devName[a.dev]]_vars

\* ------------------------------------------------------- StandardReadable
\* The composite itself, as an element of the lists stage() returns.
Self == 0

\* The constructor arguments a child signal can be passed in.
Roles == {"primary", "read", "read_uncached", "config"}

\* The composite's own name and the keys the children's mappings can have:
\* a child can have been given any name, the composite's included.
CompName == "det"

SigKeys == {"det", "a", "b"}

ReadOps == {"read", "describe", "read_configuration", "describe_configuration"}

\* The children in the order they were passed, each list in that order.
WithRole(r) ==
    SelectSeq([c \in 1..nSig |-> c], LAMBDA c : sigRole[c] = r)

Wrapped(kind, ids) ==
    [i \in 1..Len(ids) |-> [kind |-> kind, sig |-> ids[i]]]

\* self._read_signals
ReadSignals ==
    Wrapped("_ReadableRenamer", WithRole("primary"))
        \o Wrapped("AsyncReadable", WithRole("read"))
        \o Wrapped("_UncachedSignal", WithRole("read_uncached"))

\* self._conf_signals
ConfSignals == Wrapped("AsyncReadable", WithRole("config"))

\* The place of each constructor argument in _read_signals + _conf_signals.
Place(r) ==
    CASE r = "primary" -> 1
      [] r = "read" -> 2
      [] r = "read_uncached" -> 3
      [] r = "config" -> 4

\* What a constructor call with at most n children can build: at most one
\* primary; the children are numbered in the order the two tuples hold them.
InitBuilt(n) ==
    /\ nSig \in 0..n
    /\ sigRole \in [1..nSig -> Roles]
    /\ Cardinality({c \in 1..nSig : sigRole[c] = "primary"}) <= 1
    /\ \A c, d \in 1..nSig : c < d => Place(sigRole[c]) <= Place(sigRole[d])
    /\ sigStageable \in [1..nSig -> BOOLEAN]
    /\ sigKey \in [1..nSig -> SigKeys]

InitStage ==
    /\ staged = FALSE
    /\ lastStageCall = "none"
    /\ nStage = 0
    /\ nUnstage = 0
    /\ stageCalls = [c \in 1..nSig |-> 0]
    /\ unstageCalls = [c \in 1..nSig |-> 0]
    /\ returned = << >>

InitRead ==
    /\ readPc = "idle"
    /\ readOp = "read"
    /\ completed = << >>
    /\ reordered = FALSE
    /\ readResult = << >>

IsStageableUnwrapped(sig) ==
    \/ sig.kind = "_ReadableRenamer"
    \/ sigStageable[sig.sig]

\* isinstance(sig, Stageable): the renamer always has stage and unstage, the
\* uncached wrapper never has.
IsStageable(sig) ==
    \/ sig.kind = "_ReadableRenamer"
    \/ sig.kind = "AsyncReadable" /\ sigStageable[sig.sig]

\* The list a child's own stage() or unstage() returns: the child, and for an
\* even numbered child a sub-object it staged as well.
ChildStage(c) == IF c % 2 = 0 THEN <<c, -c>> ELSE <<c>>

\* Whether sig.stage() reaches the child's own stage().
Invokes(sig) == sig.kind = "AsyncReadable" \/ sigStageable[sig.sig]

\* sig.stage() and sig.unstage() of an element that has them.
SigStage(sig) == IF Invokes(sig) THEN ChildStage(sig.sig) ELSE << >>

\* The tuple stage() and unstage() loop over.
StageSignalsReadOnly == ReadSignals

StageSignals == ReadSignals \o ConfSignals

RECURSIVE StageLoop(_, _, _, _)
\* The loop of stage() and unstage() from element i on.
StageLoop(sigs, i, list, counts) ==
    IF i > Len(sigs)
    THEN [list |-> list, counts |-> counts]
    ELSE IF IsStageable(sigs[i])
         THEN StageLoop(sigs, i + 1, list \o SigStage(sigs[i]),
                        IF Invokes(sigs[i])
                        THEN [counts EXCEPT ![sigs[i].sig] = @ + 1]
                        ELSE counts)
         ELSE StageLoop(sigs, i + 1, list, counts)

Stage ==
    /\ nStage + nUnstage < MaxStageCalls
    /\ staged' = TRUE
    /\ LET done == StageLoop(StageSignals, 1, <<Self>>, stageCalls)
       IN  /\ returned' = done.list
           /\ stageCalls' = done.counts
    /\ lastStageCall' = "stage"
    /\ nStage' = nStage + 1
    /\ UNCHANGED <<nUnstage, unstageCalls, builtVars, readVars, nonReadableVars>>

Unstage ==
    /\ nStage + nUnstage < MaxStageCalls
    /\ staged' = FALSE
    /\ LET done == StageLoop(StageSignals, 1, <<Self>>, unstageCalls)
       IN  /\ returned' = done.list
           /\ unstageCalls' = done.counts
    /\ lastStageCall' = "unstage"
    /\ nUnstage' = nUnstage + 1
    /\ UNCHANGED <<nStage, stageCalls, builtVars, readVars, nonReadableVars>>

NextStage == Stage \/ Unstage

\* What a reading is tagged with: read gives Readings, describe Descriptors.
Item(op) ==
    IF op \in {"read", "read_configuration"} THEN "Reading" ELSE "Descriptor"

\* A child's own read() or describe(): a single item mapping.
ChildResult(c, op) == sigKey[c] :> <<Item(op), c>>

\* _ReadableRenamer._rename
RenameKeepsKey(d) == d

Rename(d) ==
    IF DOMAIN d = {} THEN d
    ELSE CompName :> d[CHOOSE k \in DOMAIN d : TRUE]

\* sig.read() or sig.describe() of an element of the tuples.
SigResult(sig, op) ==
    IF sig.kind = "_ReadableRenamer"
    THEN Rename(ChildResult(sig.sig, op))
    ELSE ChildResult(sig.sig, op)

\* The tuple each reading method gathers over.
Gathered(op) ==
    IF op \in {"read", "describe"} THEN ReadSignals ELSE ConfSignals

\* The list asyncio.gather returns: the results in argument order.
GatherResultsAsCompleted(op, order) ==
    [i \in 1..Len(Gathered(op)) |-> SigResult(Gathered(op)[order[i]], op)]

GatherResults(op, order) ==
    [i \in 1..Len(Gathered(op)) |-> SigResult(Gathered(op)[i], op)]

RECURSIVE Merge(_, _, _)
\* The loop of merge_gathered_dicts from result i on: ret.update(result).
Merge(results, i, ret) ==
    IF i > Len(results)
    THEN ret
    ELSE Merge(results, i + 1, results[i] @@ ret)

\* read(), describe(), read_configuration() or describe_configuration() is
\* awaited: the children's coroutines are gathered.
ReadCall(op) ==
    /\ readPc \in {"idle", "done"}
    /\ readPc' = "gathering"
    /\ readOp' = op
    /\ completed' = << >>
    /\ reordered' = FALSE
    /\ readResult' = << >>
    /\ UNCHANGED <<builtVars, stageVars, nonReadableVars>>

\* One of the gathered coroutines finishes.
SigCompletes(i) ==
    /\ readPc = "gathering"
    /\ i \in 1..Len(Gathered(readOp))
    /\ \A j \in 1..Len(completed) : completed[j] # i
    /\ completed' = Append(completed, i)
    /\ UNCHANGED <<readPc, readOp, reordered, readResult, builtVars, stageVars,
                   nonReadableVars>>

\* All have finished: gather returns and the results are merged.
GatherReturns ==
    /\ readPc = "gathering"
    /\ Len(completed) = Len(Gathered(readOp))
    /\ readResult' = Merge(GatherResults(readOp, completed), 1, << >>)
    /\ reordered' = (completed # [i \in 1..Len(completed) |-> i])
    /\ completed' = << >>
    /\ readPc' = "done"
    /\ UNCHANGED <<readOp, builtVars, stageVars, nonReadableVars>>

NextRead ==
    \/ \E op \in ReadOps : ReadCall(op)
    \/ \E i \in 1..nSig : SigCompletes(i)
    \/ GatherReturns

\* ---------------------------------------------- claims: StandardReadable
\* The children stage() and unstage() are to reach: those passed as primary,
\* read or config that have the stage capability.
StagedChildren ==
    {c \in 1..nSig : sigRole[c] \in {"primary", "read", "config"} /\ sigStageable[c]}

\* C17: the staged flag is True exactly when the most recent call was
\* stage(); every stage() and unstage() call, unstage() before any stage()
\* included, returns and has invoked stage or unstage once on every read and
\* configuration child that has the stage capability.
C17_StagedFollowsLastCall ==
    /\ staged = (lastStageCall = "stage")
    /\ lastStageCall # "none" => returned # << >> /\ returned[1] = Self
    /\ \A c \in StagedChildren :
          stageCalls[c] = nStage /\ unstageCalls[c] = nUnstage

\* C17 witness: unstage() came first, stage() was called after it, and the
\* composite has a stageable primary, read and config child.
C17_Witness ==
    /\ lastStageCall = "stage"
    /\ nUnstage >= 1
    /\ nStage = 1
    /\ \A r \in {"primary", "read", "config"} :
          \E c \in StagedChildren : sigRole[c] = r

RECURSIVE Concat(_)
Concat(lists) ==
    IF lists = << >> THEN << >> ELSE Head(lists) \o Concat(Tail(lists))

\* C18: stage() returns the composite followed by the lists of the stageable
\* children, the primary first, then the read children, then the config
\* children; the other children contribute nothing.
C18_StageReturnsSelfThenChildren ==
    lastStageCall = "stage" =>
        LET order == WithRole("primary") \o WithRole("read") \o WithRole("config")
            able == SelectSeq(order, LAMBDA c : sigStageable[c])
        IN  returned = <<Self>> \o Concat([i \in 1..Len(able) |-> ChildStage(able[i])])

\* C18 witness: stage() returned with a stageable primary, read and config
\* child and an uncached child whose signal is stageable.
C18_Witness ==
    /\ lastStageCall = "stage"
    /\ \A r \in {"primary", "read", "config"} :
          \E c \in StagedChildren : sigRole[c] = r
    /\ \E c \in 1..nSig : sigRole[c] = "read_uncached" /\ sigStageable[c]

\* The children's own mappings in construction order, the primary's re-keyed.
Mappings ==
    [i \in 1..Len(Gathered(readOp)) |-> SigResult(Gathered(readOp)[i], readOp)]

\* C19: the mapping a reading method returns has exactly the children's keys,
\* each with the entry of the last child in construction order that has it,
\* whatever order the children's reads finished in.
C19_MergedInConstructionOrder ==
    readPc = "done" =>
        /\ DOMAIN readResult = UNION {DOMAIN Mappings[i] : i \in DOMAIN Mappings}
        /\ \A k \in DOMAIN readResult :
              \E i \in DOMAIN Mappings :
                  /\ k \in DOMAIN Mappings[i]
                  /\ readResult[k] = Mappings[i][k]
                  /\ \A j \in DOMAIN Mappings : k \in DOMAIN Mappings[j] => j <= i

\* C19 witness: a reading method returned after two children with the same
\* key finished in another order than they were constructed in.
C19_Witness ==
    /\ readPc = "done"
    /\ reordered
    /\ \E i, j \in DOMAIN Mappings : i # j /\ DOMAIN Mappings[i] = DOMAIN Mappings[j]

\* The read children other than the primary.
OtherRead == {c \in 1..nSig : sigRole[c] \in {"read", "read_uncached"}}

\* What C20 claims of a finished read() or describe() of a composite with
\* primary child a.
PrimaryRekeyed(a) ==
    /\ CompName \in DOMAIN readResult
    /\ readResult[CompName] = <<Item(readOp), a>>
    /\ sigKey[a] \notin DOMAIN readResult
    /\ \A b \in OtherRead :
          /\ sigKey[b] \in DOMAIN readResult
          /\ readResult[sigKey[b]] = <<Item(readOp), b>>
    /\ DOMAIN readResult = {CompName} \cup {sigKey[b] : b \in OtherRead}

\* C20 (as claimed): after read() or describe() of a composite built with a
\* primary child A and read children B, the mapping has the composite's name
\* with A's item, not A's own key, and every B's key with B's item; the key
\* set is the same for read() and describe().
C20_PrimaryRekeyedAlways ==
    (readPc = "done" /\ readOp \in {"read", "describe"}) =>
        \A a \in 1..nSig : sigRole[a] = "primary" => PrimaryRekeyed(a)

\* The composite's name, the primary's own key and the read children's keys
\* are all different.
DistinctKeys(a) ==
    /\ sigKey[a] # CompName
    /\ \A b \in OtherRead : sigKey[b] \notin {CompName, sigKey[a]}
    /\ \A b, c \in OtherRead : b # c => sigKey[b] # sigKey[c]

\* C20 (amended): the same, provided the composite's name, A's own key and
\* the keys of the read children are pairwise different.
C20_PrimaryRekeyedWhenDistinct ==
    (readPc = "done" /\ readOp \in {"read", "describe"}) =>
        \A a \in 1..nSig :
            (sigRole[a] = "primary" /\ DistinctKeys(a)) => PrimaryRekeyed(a)

\* C20 witness: describe() returned for a composite with a primary and a read
\* child whose keys and the composite's name are all different.
C20_Witness ==
    /\ readPc = "done"
    /\ readOp = "describe"
    /\ \E a \in 1..nSig :
          /\ sigRole[a] = "primary"
          /\ DistinctKeys(a)
          /\ \E b \in OtherRead : sigRole[b] = "read"

\* -------------------------------------------------------- DeviceCollector
\* _on_exit has created one connect task per collected device (at least one,
\* or _wait_for_tasks is not called) and _wait_for_tasks is in asyncio.wait.
InitCollector ==
    /\ nDevices \in 1..MaxDevices
    /\ devTask = [i \in 1..nDevices |-> "pending"]
    /\ devCancelReq = [i \in 1..nDevices |-> FALSE]
    /\ dcPending = {}
    /\ notConnected = {}
    /\ dcAwaited = {}
    /\ dcPc = "waiting"
    /\ dcLog = << >>

CollectorRunning == dcPc \in {"waiting", "awaiting"}

\* A device's connect() returns; a cancelled connect() may do so as well.
DeviceConnects(i) ==
    /\ CollectorRunning
    /\ devTask[i] = "pending"
    /\ devTask' = [devTask EXCEPT ![i] = "ok"]
    /\ UNCHANGED <<nDevices, devCancelReq, dcPending, notConnected, dcAwaited,
                   dcPc, dcLog>>
    /\ UNCHANGED nonCollectorVars

\* A device's connect() raises an Exception: NotConnected or another one,
\* before the timeout or on being cancelled.
DeviceRaises(i) ==
    /\ CollectorRunning
    /\ devTask[i] = "pending"
    /\ devTask' = [devTask EXCEPT ![i] = "raised"]
    /\ UNCHANGED <<nDevices, devCancelReq, dcPending, notConnected, dcAwaited,
                   dcPc, dcLog>>
    /\ UNCHANGED nonCollectorVars

\* A connect task that was asked to cancel ends cancelled: its coroutine did
\* not catch the CancelledError thrown into it.
DeviceCancelled(i) ==
    /\ CollectorRunning
    /\ devTask[i] = "pending"
    /\ devCancelReq[i]
    /\ devTask' = [devTask EXCEPT ![i] = "cancelled"]
    /\ UNCHANGED <<nDevices, devCancelReq, dcPending, notConnected, dcAwaited,
                   dcPc, dcLog>>
    /\ UNCHANGED nonCollectorVars

\* with suppress(Exception): await t, for a task that is done. CancelledError
\* is a BaseException, so it is not suppressed.
AwaitSuppressed(outcome) ==
    IF outcome = "cancelled" THEN "raisedCancelledError" ELSE "suppressed"

\* Line 279 completes, with every task done or at the timeout, and lines
\* 280-284 follow: not_connected is built and the pending tasks are cancelled.
WaitEnds ==
    /\ dcPc = "waiting"
    /\ LET pending == {i \in 1..nDevices : devTask[i] = "pending"}
           failed == {i \in 1..nDevices : devTask[i] = "raised"}
       IN  /\ dcPending' = pending
           /\ notConnected' = pending \cup failed
           /\ devCancelReq' = [i \in 1..nDevices |-> i \in pending]
           /\ dcPc' = IF pending \cup failed = {} THEN "returned" ELSE "awaiting"
    /\ UNCHANGED <<nDevices, devTask, dcAwaited, dcLog>>
    /\ UNCHANGED nonCollectorVars

\* Lines 285-287, one iteration: the next pending task, in the arbitrary order
\* of the set, is awaited and has ended.
AwaitPending(i) ==
    /\ dcPc = "awaiting"
    /\ i \in dcPending \ dcAwaited
    /\ devTask[i] # "pending"
    /\ IF AwaitSuppressed(devTask[i]) = "suppressed"
       THEN /\ dcAwaited' = dcAwaited \cup {i}
            /\ UNCHANGED dcPc
       ELSE /\ dcPc' = AwaitSuppressed(devTask[i])
            /\ UNCHANGED dcAwaited
    /\ UNCHANGED <<nDevices, devTask, devCancelReq, dcPending, notConnected, dcLog>>
    /\ UNCHANGED nonCollectorVars

\* Lines 288-296: the summary is built from task.exception() of every task in
\* not_connected, which raises CancelledError for a cancelled task, and is
\* handed to logging.error.
LogSummary ==
    /\ dcPc = "awaiting"
    /\ dcAwaited = dcPending
    /\ IF \E i \in notConnected : devTask[i] = "cancelled"
       THEN /\ dcPc' = "raisedCancelledError"
            /\ UNCHANGED dcLog
       ELSE /\ dcLog' = Append(dcLog, [count |-> Cardinality(notConnected),
                                       names |-> {Key(i) : i \in notConnected}])
            /\ dcPc' = "returned"
    /\ UNCHANGED <<nDevices, devTask, devCancelReq, dcPending, notConnected, dcAwaited>>
    /\ UNCHANGED nonCollectorVars

NextCollector ==
    \/ \E i \in 1..nDevices : DeviceConnects(i)
    \/ \E i \in 1..nDevices : DeviceRaises(i)
    \/ \E i \in 1..nDevices : DeviceCancelled(i)
    \/ WaitEnds
    \/ \E i \in 1..nDevices : AwaitPending(i)
    \/ LogSummary

\* ------------------------------------------------ claims: DeviceCollector
\* C21 (as claimed): _wait_for_tasks never raises; once it has ended it has
\* returned, every task that was pending at the timeout was cancelled and has
\* ended, and if some device did not connect exactly one summary was logged,
\* naming each of them.
C21_NeverRaisesLogsSummary ==
    /\ dcPc # "raisedCancelledError"
    /\ dcPc = "returned" =>
          /\ \A i \in dcPending : devCancelReq[i] /\ devTask[i] # "pending"
          /\ notConnected = {} => dcLog = << >>
          /\ notConnected # {} =>
                /\ Len(dcLog) = 1
                /\ dcLog[1].names = {Key(i) : i \in notConnected}

\* ------------------------------------------------------------------ Mover
Positions == 0..MaxPos

\* Mover.__init__: _success is True; the motor is at rest at position 0.
InitMover ==
    /\ nMoves = 0
    /\ moveTarget = << >>
    /\ movePc = << >>
    /\ stoppedFalse = << >>
    /\ moverSuccess = TRUE
    /\ setpoint = 0
    /\ moving = FALSE
    /\ readback = 0

\* The status of a move is not done yet.
InProgress(m) == movePc[m] \in {"created", "gathering", "observing"}

\* set(new_position): the coroutine of _move is wrapped in a task by
\* AsyncStatus; nothing of _move has run when set() returns.
SetCall(pos) ==
    /\ nMoves < MaxMoves
    /\ nMoves' = nMoves + 1
    /\ moveTarget' = Append(moveTarget, pos)
    /\ movePc' = Append(movePc, "created")
    /\ stoppedFalse' = Append(stoppedFalse, FALSE)
    /\ UNCHANGED <<moverSuccess, setpoint, moving, readback>>
    /\ UNCHANGED nonMoverVars

\* _move up to its first suspension: the flag is reset and the three values
\* are gathered.
MoveStart(m) ==
    /\ movePc[m] = "created"
    /\ moverSuccess' = TRUE
    /\ movePc' = [movePc EXCEPT ![m] = "gathering"]
    /\ UNCHANGED <<nMoves, moveTarget, stoppedFalse, setpoint, moving, readback>>
    /\ UNCHANGED nonMoverVars

\* await self.setpoint.set(new_position, wait=False): the motor sets off.
MovePut(m) ==
    /\ movePc[m] = "gathering"
    /\ setpoint' = moveTarget[m]
    /\ moving' = TRUE
    /\ movePc' = [movePc EXCEPT ![m] = "observing"]
    /\ UNCHANGED <<nMoves, moveTarget, stoppedFalse, moverSuccess, readback>>
    /\ UNCHANGED nonMoverVars

\* The test that ends _move after the loop: "if not self._success: raise".
MoveEnds(flag) == IF flag THEN "succeeded" ELSE "failed"

\* The loop over observe_value(self.readback) sees a position close to the
\* target and breaks; the flag decides how _move ends.
MoveObserves(m) ==
    /\ movePc[m] = "observing"
    /\ readback = moveTarget[m]
    /\ movePc' = [movePc EXCEPT ![m] = MoveEnds(moverSuccess)]
    /\ UNCHANGED <<nMoves, moveTarget, stoppedFalse, moverSuccess, setpoint,
                   moving, readback>>
    /\ UNCHANGED nonMoverVars

\* stop(success): the flag is set and the stop command is executed.
StopCall(flag) ==
    /\ moverSuccess' = flag
    /\ moving' = FALSE
    /\ stoppedFalse' = [m \in 1..nMoves |->
                            stoppedFalse[m] \/ (~flag /\ InProgress(m))]
    /\ UNCHANGED <<nMoves, moveTarget, movePc, setpoint, readback>>
    /\ UNCHANGED nonMoverVars

\* The motor travels one position towards the setpoint.
MotorStep ==
    /\ moving
    /\ readback # setpoint
    /\ readback' = IF readback < setpoint THEN readback + 1 ELSE readback - 1
    /\ UNCHANGED <<nMoves, moveTarget, movePc, stoppedFalse, moverSuccess,
                   setpoint, moving>>
    /\ UNCHANGED nonMoverVars

NextMover ==
    \/ \E pos \in Positions : SetCall(pos)
    \/ \E m \in 1..nMoves : MoveStart(m)
    \/ \E m \in 1..nMoves : MovePut(m)
    \/ \E m \in 1..nMoves : MoveObserves(m)
    \/ \E flag \in BOOLEAN : StopCall(flag)
    \/ MotorStep

\* ---------------------------------------------------------- claims: Mover
\* C25 (as claimed): a move during which stop(success=False) was called never
\* finishes with success, whatever set() and stop() calls come later.
C25_StoppedMoveNeverSucceeds ==
    \A m \in 1..nMoves : stoppedFalse[m] => movePc[m] # "succeeded"

\* ---------------------------------------------------------- specifications
\* Each component is checked on its own, the other ones not in use.
NoConn == InitConn /\ nChildren = 0

\* No Mover is moved or stopped.
NoMover == InitMover

\* No DeviceCollector is connecting devices.
NoCollector ==
    /\ nDevices = 0
    /\ devTask = << >>
    /\ devCancelReq = << >>
    /\ dcPending = {}
    /\ notConnected = {}
    /\ dcAwaited = {}
    /\ dcPc = "returned"
    /\ dcLog = << >>

\* No StandardReadable is built with children.
NoReadable ==
    /\ InitBuilt(0)
    /\ InitStage
    /\ InitRead

\* No device of the tree is touched.
NoNames == InitNames

\* wait_for_value is not called.
NoWait ==
    /\ wfvPc = "init"
    /\ wfvMatch = [callable |-> FALSE, value |-> 1]
    /\ wfvTimeout = "None"
    /\ wfvCancel = FALSE
    /\ pushed = << >>

ConnInit ==
    /\ InitConn
    /\ InitStatus
    /\ InitObserve
    /\ NoWait
    /\ NoNames
    /\ NoReadable
    /\ NoCollector
    /\ NoMover

StatusInit ==
    /\ InitStatus
    /\ NoConn
    /\ InitObserve
    /\ NoWait
    /\ NoNames
    /\ NoReadable
    /\ NoCollector
    /\ NoMover

ObserveInit ==
    /\ InitObserve
    /\ NoConn
    /\ InitStatus
    /\ NoWait
    /\ NoNames
    /\ NoReadable
    /\ NoCollector
    /\ NoMover

WaitInit ==
    /\ InitWait
    /\ InitObserve
    /\ NoConn
    /\ InitStatus
    /\ NoNames
    /\ NoReadable
    /\ NoCollector
    /\ NoMover

SpecConn == ConnInit /\ [][NextConn]_vars

SpecStatus == StatusInit /\ [][NextStatus]_vars

SpecObserve == ObserveInit /\ [][NextObserve]_vars

SpecWait == WaitInit /\ [][NextWait]_vars

NamesInit ==
    /\ InitNames
    /\ NoConn
    /\ InitStatus
    /\ InitObserve
    /\ NoWait
    /\ NoReadable
    /\ NoCollector
    /\ NoMover

SpecNames == NamesInit /\ [][NextNames]_vars

\* The children's keys play no part in staging.
StageInit ==
    /\ InitBuilt(MaxSig)
    /\ sigKey = [c \in 1..nSig |-> "a"]
    /\ InitStage
    /\ InitRead
    /\ NoConn
    /\ InitStatus
    /\ InitObserve
    /\ NoWait
    /\ NoNames
    /\ NoCollector
    /\ NoMover

SpecStage == StageInit /\ [][NextStage]_vars

\* The children's stage capability plays no part in reading.
ReadInit ==
    /\ InitBuilt(MaxGathered)
    /\ sigStageable = [c \in 1..nSig |-> TRUE]
    /\ InitStage
    /\ InitRead
    /\ NoConn
    /\ InitStatus
    /\ InitObserve
    /\ NoWait
    /\ NoNames
    /\ NoCollector
    /\ NoMover

SpecRead == ReadInit /\ [][NextRead]_vars

CollectorInit ==
    /\ InitCollector
    /\ NoConn
    /\ InitStatus
    /\ InitObserve
    /\ NoWait
    /\ NoNames
    /\ NoReadable
    /\ NoMover

SpecCollector == CollectorInit /\ [][NextCollector]_vars

MoverInit ==
    /\ InitMover
    /\ NoConn
    /\ InitStatus
    /\ InitObserve
    /\ NoWait
    /\ NoNames
    /\ NoReadable
    /\ NoCollector

SpecMover == MoverInit /\ [][NextMover]_vars

====
